---- MODULE Spec2Model ----
(***************************************************************************)
(* A model of the unzipper crate (src/src/unzipper.rs): a read-only ZIP    *)
(* reader.  An Unzipper owns an open file, the index built from the        *)
(* central directory (file_entries) and the per-extraction snapshots       *)
(* current_file_entry / current_file_header.                               *)
(*                                                                         *)
(* Bytes are naturals below 128, strings are sequences of ASCII codes, an  *)
(* Option is a sequence of length 0 (None) or 1 (Some).  Archive files are *)
(* the values of Disk, a fixed table of byte sequences laid out as the     *)
(* record comments of the source describe them.                            *)
(***************************************************************************)
EXTENDS Integers, Sequences, FiniteSets, TLC

VARIABLES
    fs,                   \* the paths the caller may hand to new/open
    handle,               \* "none": the caller holds no Unzipper; "live": it does
    filepath,             \* Unzipper.filepath
    file,                 \* Unzipper.file: Option of the path the File is open on
    file_entries,         \* Unzipper.file_entries: normalized path -> FileEntry
    current_file_entry,   \* Unzipper.current_file_entry: Option<FileEntry>
    current_file_header,  \* Unzipper.current_file_header: Option<FileHeader>
    pc,                   \* "idle", "scan" (inside open's backward loop), "crashed"
    via,                  \* which entry point runs the open in progress
    ecd_offset,           \* open's local ecd_offset
    end_offset,           \* open's local end_offset
    found,                \* open's local found
    buff,                 \* open's local buff (FILE_CENTRAL_SIZE + 5 bytes)
    opens,                \* number of new/open calls made so far
    failed_get,           \* a get_file call on the live handle has returned Err
    result,               \* what the last call returned
    path_in,              \* clean_file_path: the argument
    path_out,             \* clean_file_path(path_in), once computed
    path_twice            \* clean_file_path(path_out), once computed

vars == <<fs, handle, filepath, file, file_entries, current_file_entry,
          current_file_header, pc, via, ecd_offset, end_offset, found, buff,
          opens, failed_get, result, path_in, path_out, path_twice>>

handleVars == <<fs, handle, filepath, file, file_entries, current_file_entry,
                current_file_header, pc, via, ecd_offset, end_offset, found,
                buff, opens, failed_get, result>>

pathVars == <<path_in, path_out, path_twice>>

None == <<>>
Some(x) == <<x>>

(***************************************************************************)
(* Bounds of the model.                                                    *)
(***************************************************************************)
MaxPathLen == 5
MaxOpens == 2

(***************************************************************************)
(* Program constants.                                                      *)
(***************************************************************************)
DIR_FILE_HEADER_SIGNATURE == 33639248
FILE_HEADER_SIGNATURE == 67324752
DIR_END_SIGNATURE == 101010256
BUFFER_SIZE == 16384
FILE_CENTRAL_SIZE == 22
SizeOfDirFileHeader == 46
SizeOfFileHeader == 30
ScanLimit == 65536

\* ASCII codes of the characters clean_file_path looks at.
Slash == 47
Dot == 46

(***************************************************************************)
(* clean_file_path                                                         *)
(***************************************************************************)
RECURSIVE SplitAcc(_, _, _)
\* str::split('/'): the pieces between separators, empty pieces included.
SplitAcc(s, i, cur) ==
    IF i > Len(s) THEN <<cur>>
    ELSE IF s[i] = Slash THEN <<cur>> \o SplitAcc(s, i + 1, <<>>)
    ELSE SplitAcc(s, i + 1, Append(cur, s[i]))

Split(s) == SplitAcc(s, 1, <<>>)

\* Vec::pop, whose result the code discards: popping an empty Vec does nothing.
Pop(v) == IF v = <<>> THEN v ELSE SubSeq(v, 1, Len(v) - 1)

RECURSIVE Join(_)
\* [&str]::join("/")
Join(parts) ==
    IF parts = <<>> THEN <<>>
    ELSE IF Len(parts) = 1 THEN parts[1]
    ELSE parts[1] \o <<Slash>> \o Join(Tail(parts))

\* One turn of the for loop over the pieces, with a mutation that pushes ".."
\* instead of popping.
CleanStepNoPop(parts, part) ==
    IF part = <<>> \/ part = <<Dot>> THEN parts
    ELSE Append(parts, part)

\* One turn of the for loop over the pieces.
CleanStep(parts, part) ==
    IF part = <<>> \/ part = <<Dot>> THEN parts
    ELSE IF part = <<Dot, Dot>> THEN Pop(parts)
    ELSE Append(parts, part)

RECURSIVE CleanParts(_, _, _)
CleanParts(segs, i, parts) ==
    IF i > Len(segs) THEN parts
    ELSE CleanParts(segs, i + 1, CleanStep(parts, segs[i]))

starts_with(path, ch) == Len(path) > 0 /\ path[1] = ch

clean_file_path(path) ==
    LET cleaned == Join(CleanParts(Split(path), 1, <<>>))
    IN  IF starts_with(path, Slash) THEN <<Slash>> \o cleaned ELSE cleaned

(***************************************************************************)
(* Bytes and little-endian integers                                        *)
(***************************************************************************)
Rep(n, b) == [i \in 1..n |-> b]

LE16(n) == <<n % 256, n \div 256>>

LE32(n) == <<n % 256, (n \div 256) % 256, (n \div 65536) % 256, n \div 16777216>>

\* u32::from_le_bytes of a slice of exactly 4 bytes, else 0.
get_u32(bytes) ==
    IF Len(bytes) = 4
    THEN bytes[1] + 256 * bytes[2] + 65536 * bytes[3] + 16777216 * bytes[4]
    ELSE 0

\* u16::from_le_bytes of a slice of exactly 2 bytes, else 0.
get_u16(bytes) ==
    IF Len(bytes) = 2 THEN bytes[1] + 256 * bytes[2] ELSE 0

\* &b[from..to], both offsets counted from 0 as in the source.
Slice(b, from, to) == SubSeq(b, from + 1, to)

(***************************************************************************)
(* The compression backend (miniz_oxide's stream inflate), reduced to a    *)
(* byte-aligned code: token 0 ends the stream, a token in 32..95 stands    *)
(* for itself, a token in 96..127 for two copies of itself, and a token in *)
(* 1..31 is no code at all.  Compressed and plain lengths differ, and the  *)
(* decoder state runs across the chunks it is fed.                         *)
(***************************************************************************)
END_TOKEN == 0

IsPairToken(t) == t >= 96

IsBadToken(t) == t # END_TOKEN /\ t < 32

RECURSIVE Expand(_, _, _)
Expand(s, lo, hi) ==
    IF lo > hi THEN <<>>
    ELSE IF lo = hi THEN (IF IsPairToken(s[lo]) THEN <<s[lo], s[lo]>> ELSE <<s[lo]>>)
    ELSE LET mid == (lo + hi) \div 2
         IN  Expand(s, lo, mid) \o Expand(s, mid + 1, hi)

\* InflateState::new
NewInflateState == [done |-> FALSE, failed |-> FALSE, pending |-> FALSE]

InflateErr(st) ==
    [is_err |-> TRUE, written |-> <<>>, state |-> [st EXCEPT !.failed = TRUE]]

\* Where the stream ends in input: the index of its first END_TOKEN, or 0.
EndIndex(input) ==
    IF \A i \in 1..Len(input) : input[i] # END_TOKEN THEN 0
    ELSE CHOOSE i \in 1..Len(input) :
            input[i] = END_TOKEN /\ \A j \in 1..(i - 1) : input[j] # END_TOKEN

\* The status, the bytes written and the state, given whether a token before
\* the end is no code (bad) and what the tokens before the end decode to (out).
InflateResult(st, cap, finish, endIdx, bad, out) ==
    IF st.failed THEN InflateErr(st)
    ELSE IF st.done \/ st.pending
    THEN [is_err |-> FALSE, written |-> <<>>, state |-> st]
    ELSE IF bad THEN InflateErr(st)
    ELSE IF Len(out) > cap
    THEN IF finish THEN InflateErr(st)
         ELSE [is_err |-> FALSE, written |-> SubSeq(out, 1, cap),
               state |-> [st EXCEPT !.pending = TRUE]]
    ELSE IF finish /\ endIdx = 0 THEN InflateErr(st)
    ELSE [is_err |-> FALSE, written |-> out,
          state |-> [st EXCEPT !.done = (endIdx # 0)]]

InflateTo(st, input, cap, finish, endIdx) ==
    LET n == IF endIdx = 0 THEN Len(input) ELSE endIdx - 1
    IN  InflateResult(st, cap, finish, endIdx,
                      \E i \in 1..n : IsBadToken(input[i]), Expand(input, 1, n))

\* inflate(state, input, output, flush): cap is the length of the output
\* slice, finish says flush is MZFlush::Finish.  Gives the status, the bytes
\* written to the front of the output slice, and the state afterwards.
Inflate(st, input, cap, finish) == InflateTo(st, input, cap, finish, EndIndex(input))

(***************************************************************************)
(* The archive files on disk.  A file is described by its members, and its *)
(* bytes are laid out from the description: the local records, then the    *)
(* central directory, then the end-of-central-directory record and the     *)
(* archive comment.                                                        *)
(***************************************************************************)
\* Local header record and the member's data.
LocalRec(e) ==
    LE32(e.lsig) \o LE16(20) \o LE16(0) \o LE16(e.lmethod) \o LE16(0) \o LE16(0)
    \o LE32(0) \o LE32(e.csize) \o LE32(e.size)
    \o LE16(Len(e.name)) \o LE16(Len(e.extra)) \o e.name \o e.extra \o e.payload

\* Central file header record.
CentralRec(e, offset) ==
    LE32(e.csig) \o LE16(20) \o LE16(20) \o LE16(0) \o LE16(e.method) \o LE16(0)
    \o LE16(0) \o LE32(0) \o LE32(e.csize) \o LE32(e.size)
    \o LE16(e.cnamelen) \o LE16(0) \o LE16(0) \o LE16(0) \o LE16(0) \o LE32(0)
    \o LE32(offset) \o e.name

\* End of central directory record.
EocdRec(count, cdsize, cdstart, comment) ==
    LE32(DIR_END_SIGNATURE) \o LE16(0) \o LE16(0) \o LE16(count) \o LE16(count)
    \o LE32(cdsize) \o LE32(cdstart) \o LE16(Len(comment)) \o comment

RECURSIVE LocalsFrom(_, _)
LocalsFrom(es, i) ==
    IF i > Len(es) THEN <<>> ELSE LocalRec(es[i]) \o LocalsFrom(es, i + 1)

RECURSIVE LocalOffset(_, _)
\* Where member i's local header starts.
LocalOffset(es, i) ==
    IF i = 1 THEN 0 ELSE LocalOffset(es, i - 1) + Len(LocalRec(es[i - 1]))

\* The offset member i's central record gives for its local header.
DeclaredOffset(es, i) ==
    IF es[i].offset >= 0 THEN es[i].offset ELSE LocalOffset(es, i)

RECURSIVE CentralsFrom(_, _)
CentralsFrom(es, i) ==
    IF i > Len(es) THEN <<>>
    ELSE CentralRec(es[i], DeclaredOffset(es, i)) \o CentralsFrom(es, i + 1)

\* An archive of members es whose end record declares count entries.
ArchiveParts(loc, cen, count, comment) ==
    loc \o cen \o EocdRec(count, Len(cen), Len(loc), comment)

Archive(es, count, comment) ==
    ArchiveParts(LocalsFrom(es, 1), CentralsFrom(es, 1), count, comment)

\* A member as a well-formed archive holds it: plain is what was archived,
\* payload its stored or compressed form.
Member(name, method, payload, plain) ==
    [name |-> name, method |-> method, lmethod |-> method,
     lsig |-> FILE_HEADER_SIGNATURE, csig |-> DIR_FILE_HEADER_SIGNATURE,
     csize |-> Len(payload), size |-> Len(plain), payload |-> payload,
     plain |-> plain, extra |-> <<>>, cnamelen |-> Len(name), offset |-> -1]

\* "a": stored "HI".    "d/b": deflated "Hii".    "g": deflated, one byte
\* more than a chunk of compressed data.
M_a == Member(<<97>>, 0, <<72, 73>>, <<72, 73>>)
M_db == Member(<<100, 47, 98>>, 8, <<72, 105, END_TOKEN>>, <<72, 105, 105>>)
M_g == Member(<<103>>, 8, Rep(BUFFER_SIZE, 97) \o <<END_TOKEN>>, Rep(2 * BUFFER_SIZE, 97))
\* "x/y" stored "1" and "x/./y" stored "22".
M_xy1 == Member(<<120, 47, 121>>, 0, <<49>>, <<49>>)
M_xy2 == Member(<<120, 47, 46, 47, 121>>, 0, <<50, 50>>, <<50, 50>>)
\* "m": stored, the directory gives compressed_size 3 and size 2.
M_m == [Member(<<109>>, 0, <<77, 78, 79>>, <<77, 78>>) EXCEPT !.csize = 3, !.size = 2]
\* "p", and "q" whose central record has a wrong signature.
M_p == Member(<<112>>, 0, <<80>>, <<80>>)
M_q == [Member(<<113>>, 0, <<81>>, <<81>>) EXCEPT !.csig = 0]
\* "n": the central record declares a name of 9 bytes and holds 1.
M_n == [Member(<<110>>, 0, <<78>>, <<78>>) EXCEPT !.cnamelen = 9]
\* Members get_file fails on: "s" has a wrong local signature, "u" a local
\* method 99, "k" a directory method 99, "c" compressed data that is no code
\* (and an extra field of 2 bytes), "e" a header offset past the end of the file.
M_v == Member(<<118>>, 0, <<86, 87>>, <<86, 87>>)
M_s == [Member(<<115>>, 0, <<83>>, <<83>>) EXCEPT !.lsig = 0]
M_u == [Member(<<117>>, 0, <<85>>, <<85>>) EXCEPT !.lmethod = 99]
M_k == [Member(<<107>>, 0, <<75>>, <<75>>) EXCEPT !.method = 99]
M_c == [Member(<<99>>, 8, <<67, 1, END_TOKEN>>, <<67>>) EXCEPT !.extra = <<1, 1>>]
M_e == [Member(<<101>>, 0, <<69>>, <<69>>) EXCEPT !.offset = 9999]

\* What each archive is made of: its members, the entry count of its end
\* record, its comment.
Files ==
    [name \in {} |-> 0]
    @@ ("ok.zip"       :> [es |-> <<M_a, M_db>>, count |-> 2, comment |-> <<>>])
    @@ ("note.zip"     :> [es |-> <<M_a, M_db>>, count |-> 2, comment |-> Rep(3, 67)])
    @@ ("big.zip"      :> [es |-> <<M_g, M_a>>, count |-> 2, comment |-> <<>>])
    @@ ("dup.zip"      :> [es |-> <<M_xy1, M_xy2>>, count |-> 2, comment |-> <<>>])
    @@ ("mismatch.zip" :> [es |-> <<M_m, M_a>>, count |-> 2, comment |-> <<>>])
    @@ ("badsig2.zip"  :> [es |-> <<M_p, M_q>>, count |-> 2, comment |-> <<>>])
    @@ ("overrun.zip"  :> [es |-> <<M_p>>, count |-> 2, comment |-> <<>>])
    @@ ("longname.zip" :> [es |-> <<M_n>>, count |-> 1, comment |-> <<>>])
    @@ ("mixed.zip"    :> [es |-> <<M_v, M_s, M_u, M_k, M_c, M_e>>, count |-> 6,
                           comment |-> <<>>])
    @@ ("empty.zip"    :> [es |-> <<>>, count |-> 0, comment |-> <<>>])
    @@ ("c1.zip"       :> [es |-> <<M_a>>, count |-> 1, comment |-> Rep(1, 67)])
    @@ ("c21.zip"      :> [es |-> <<M_a>>, count |-> 1, comment |-> Rep(21, 67)])
    @@ ("c22.zip"      :> [es |-> <<M_a>>, count |-> 1, comment |-> Rep(22, 67)])
    @@ ("c23.zip"      :> [es |-> <<M_a>>, count |-> 1, comment |-> Rep(23, 67)])
    @@ ("c65516.zip"   :> [es |-> <<M_a>>, count |-> 1, comment |-> Rep(65516, 67)])
    @@ ("c65517.zip"   :> [es |-> <<M_a>>, count |-> 1, comment |-> Rep(65517, 67)])
    @@ ("c65535.zip"   :> [es |-> <<M_a>>, count |-> 1, comment |-> Rep(65535, 67)])

\* Files that are not archives: no end-of-central-directory signature
\* anywhere in them.
RawFiles ==
    [name \in {} |-> 0]
    @@ ("tiny.bin"     :> Rep(21, 67))
    @@ ("raw22.bin"    :> Rep(22, 67))
    @@ ("raw44.bin"    :> Rep(44, 67))
    @@ ("raw50.bin"    :> Rep(50, 67))
    @@ ("raw66.bin"    :> Rep(66, 67))
    @@ ("raw65700.bin" :> Rep(65700, 67))

\* The bytes of every file that exists.
ArchiveOf(d) == Archive(d.es, d.count, d.comment)

\* Archives of the one member "a" whose end record does not describe the
\* directory as it lies in the file: in gap.zip 4 bytes stand between the
\* directory and the end record, which gives the size of the directory; in
\* farstart.zip the end record gives a directory start past itself.
OddFiles ==
    [name \in {} |-> 0]
    @@ ("gap.zip"      :> LocalRec(M_a) \o CentralRec(M_a, 0) \o Rep(4, 67)
                            \o EocdRec(1, Len(CentralRec(M_a, 0)), Len(LocalRec(M_a)), <<>>))
    @@ ("farstart.zip" :> LocalRec(M_a) \o CentralRec(M_a, 0)
                            \o EocdRec(1, Len(CentralRec(M_a, 0)), 9999, <<>>))

Disk == [name \in DOMAIN Files |-> ArchiveOf(Files[name])] @@ RawFiles @@ OddFiles

\* A path no file is at.
MissingFile == "missing.zip"

(***************************************************************************)
(* File access                                                             *)
(***************************************************************************)
FileExists(path) == path \in DOMAIN Disk

\* file.seek(SeekFrom::End(0))
FileLength(path) == Len(Disk[path])

\* get_data(buffer, position, msg) with a buffer of n bytes: seek, then
\* read_exact, which fails when fewer than n bytes follow position.
get_data(f, n, position) ==
    IF f = None THEN [ok |-> FALSE, bytes |-> <<>>, err |-> "File not open"]
    ELSE IF n > 0 /\ position + n > FileLength(f[1])
    THEN [ok |-> FALSE, bytes |-> <<>>, err |-> "failed to fill whole buffer"]
    ELSE [ok |-> TRUE, bytes |-> Slice(Disk[f[1]], position, position + n), err |-> ""]

(***************************************************************************)
(* open: the walk over the central directory                               *)
(***************************************************************************)
\* The fields of the DirFileHeader that starts at offset o of entries.
DirFileHeaderAt(entries, o) ==
    [signature            |-> get_u32(Slice(entries, o, o + 4)),
     compresion_method    |-> get_u16(Slice(entries, o + 10, o + 12)),
     compressed_size      |-> get_u32(Slice(entries, o + 20, o + 24)),
     uncompressed_size    |-> get_u32(Slice(entries, o + 24, o + 28)),
     file_path_length     |-> get_u16(Slice(entries, o + 28, o + 30)),
     extra_field_length   |-> get_u16(Slice(entries, o + 30, o + 32)),
     comment_field_length |-> get_u16(Slice(entries, o + 32, o + 34)),
     header_offset        |-> get_u32(Slice(entries, o + 42, o + 46))]

\* The FileEntry open builds from a central record.
FileEntryOf(dir_file_header) ==
    [start_pos       |-> dir_file_header.header_offset,
     compressed_size |-> dir_file_header.compressed_size,
     size            |-> dir_file_header.uncompressed_size,
     method          |-> dir_file_header.compresion_method]

\* HashMap::insert with a mutation that keeps the entry already there.
IndexInsertKeepFirst(index, key, entry) == index @@ (key :> entry)

\* HashMap::insert: the new entry replaces one of the same key.
IndexInsert(index, key, entry) == (key :> entry) @@ index

\* The walk stops: return Err(...) out of the loop, or a panic.
WalkStop(w, status, err) == [w EXCEPT !.status = status, !.err = err]

\* A turn of the walk whose header does not lie inside entries: the header is
\* read through a raw pointer past the end of the Vec, which is undefined
\* behaviour, and ub names its outcome ("panic": the process dies; "garbage":
\* the read gives bytes that are no signature).  When the signature is inside
\* and right, the other fields are read outside and the name slice, which
\* starts past the end of entries, panics.
WalkPastEnd(entries, w, ub) ==
    IF w.file_entry_offset + 4 <= Len(entries)
    THEN IF get_u32(Slice(entries, w.file_entry_offset, w.file_entry_offset + 4))
               = DIR_FILE_HEADER_SIGNATURE
         THEN WalkStop(w, "panic", "range end index out of range")
         ELSE WalkStop(w, "err", "Invalid central directory signature")
    ELSE IF ub = "panic"
    THEN WalkStop(w, "panic", "read past the end of entries")
    ELSE WalkStop(w, "err", "Invalid central directory signature")

\* A turn of the walk on the header that lies inside entries.
WalkRecord(entries, w, dir_file_header) ==
    LET start == w.file_entry_offset + SizeOfDirFileHeader
        end == start + dir_file_header.file_path_length
    IN  IF dir_file_header.signature # DIR_FILE_HEADER_SIGNATURE
        THEN WalkStop(w, "err", "Invalid central directory signature")
        ELSE IF end > Len(entries)
        THEN WalkStop(w, "panic", "range end index out of range")
        ELSE [w EXCEPT !.index = IndexInsert(w.index,
                                             clean_file_path(Slice(entries, start, end)),
                                             FileEntryOf(dir_file_header)),
                       !.file_entry_offset =
                            w.file_entry_offset + SizeOfDirFileHeader
                                + dir_file_header.file_path_length
                                + dir_file_header.extra_field_length
                                + dir_file_header.comment_field_length,
                       !.num_entries = w.num_entries - 1]

\* One turn of the while loop over num_entries; w holds the loop's variables
\* and the index.
WalkTurn(entries, w, ub) ==
    IF w.file_entry_offset + SizeOfDirFileHeader > Len(entries)
    THEN WalkPastEnd(entries, w, ub)
    ELSE WalkRecord(entries, w, DirFileHeaderAt(entries, w.file_entry_offset))

RECURSIVE Walk(_, _, _)
\* while num_entries > 0
Walk(entries, w, ub) ==
    IF w.status # "ok" \/ w.num_entries = 0 THEN w
    ELSE Walk(entries, WalkTurn(entries, w, ub), ub)

OpenOutcome(status, err, index) == [status |-> status, err |-> err, index |-> index]

WalkOutcome(w) == OpenOutcome(w.status, w.err, w.index)

\* open once the central directory has been read (read is what get_data gave).
OpenWalk(read, num_entries, index, ub) ==
    IF ~read.ok THEN OpenOutcome("err", read.err, index)
    ELSE IF Len(read.bytes) < 4
    THEN OpenOutcome("panic", "range end index 4 out of range", index)
    ELSE IF get_u32(Slice(read.bytes, 0, 4)) # DIR_FILE_HEADER_SIGNATURE
    THEN OpenOutcome("err", "Unable to find central directory", index)
    ELSE WalkOutcome(Walk(read.bytes,
                          [file_entry_offset |-> 0, num_entries |-> num_entries,
                           index |-> index, status |-> "ok", err |-> ""],
                          ub))

\* let entries_total_size = ecd_offset - start_offset (below 0: an underflow).
EntriesTotalSize(ecd, start_offset) == ecd - start_offset

\* open from the fields of the located record on.  ecd_offset - start_offset
\* underflows when the record gives a larger start: a panic with overflow
\* checks, and a Vec of nearly usize::MAX bytes (a capacity overflow panic)
\* without.
OpenDirectory(f, ecd, start_offset, num_entries, index, ub) ==
    IF start_offset > ecd
    THEN OpenOutcome("panic", "attempt to subtract with overflow", index)
    ELSE OpenWalk(get_data(f, EntriesTotalSize(ecd, start_offset), start_offset),
                  num_entries, index, ub)

\* open from the test of the located record on: ecd is ecd_offset and buf is
\* buff after the search.
OpenTail(f, ecd, buf, index, ub) ==
    IF ecd = 0 \/ get_u32(Slice(buf, 0, 4)) # DIR_END_SIGNATURE
    THEN OpenOutcome("err", "Unable to find end of central directory", index)
    ELSE OpenDirectory(f, ecd, get_u32(Slice(buf, 16, 20)), get_u16(Slice(buf, 10, 12)),
                       index, ub)

(***************************************************************************)
(* open_file, close_file, get_file                                         *)
(***************************************************************************)
\* The FileHeader overlaid on the 30 bytes read at start_pos.
FileHeaderOf(b) ==
    [signature          |-> get_u32(Slice(b, 0, 4)),
     compression_method |-> get_u16(Slice(b, 8, 10)),
     compressed_size    |-> get_u32(Slice(b, 18, 22)),
     uncompressed_size  |-> get_u32(Slice(b, 22, 26)),
     file_path_length   |-> get_u16(Slice(b, 26, 28)),
     extra_field_length |-> get_u16(Slice(b, 28, 30))]

\* The header open_file stores, with a mutation that keeps a header snapshot
\* left by an earlier call.
HeaderSnapshotCached(cfh, bytes) ==
    IF cfh # None THEN cfh ELSE Some(FileHeaderOf(bytes))

\* The header open_file stores: the one just read, whatever was there.
HeaderSnapshot(cfh, bytes) == Some(FileHeaderOf(bytes))

\* What open_file returns: Ok or Err, and the two snapshots as it leaves them.
Opened(ok, err, cfe, cfh) == [ok |-> ok, err |-> err, cfe |-> cfe, cfh |-> cfh]

\* open_file's checks of the header it stored; close_file runs before each Err.
OpenFileCheck(file_entry, header) ==
    IF header[1].signature # FILE_HEADER_SIGNATURE
    THEN Opened(FALSE, "Invalid file header signature: <n>", None, None)
    ELSE IF header[1].compression_method # 0 /\ header[1].compression_method # 8
    THEN Opened(FALSE, "Unsupported compression method: <n>", None, None)
    ELSE Opened(TRUE, "", Some(file_entry), header)

\* open_file from the read of the local header on: the ? on get_data returns
\* with current_file_entry set and current_file_header as it was.
OpenFileRead(file_entry, cfh, read) ==
    IF ~read.ok THEN Opened(FALSE, read.err, Some(file_entry), cfh)
    ELSE OpenFileCheck(file_entry, HeaderSnapshot(cfh, read.bytes))

OpenFileAt(f, index, cfh, cleaned_file_path) ==
    IF cleaned_file_path \in DOMAIN index
    THEN OpenFileRead(index[cleaned_file_path], cfh,
                      get_data(f, SizeOfFileHeader, index[cleaned_file_path].start_pos))
    ELSE Opened(FALSE, "File not found", None, None)

\* open_file (cfe, cfh are the snapshots as it finds them).
open_file(f, index, cfe, cfh, file_path) ==
    OpenFileAt(f, index, cfh, clean_file_path(file_path))

\* let pos = data_offset + output_pos: where the next chunk is read from.
ChunkPos(data_offset, output_pos) == data_offset + output_pos

\* The end of a turn of the DEFLATE loop, given what inflate returned.
InflateStep(l, chunk_size, stream_result) ==
    IF stream_result.is_err
    THEN [l EXCEPT !.status = "err", !.err = "Decompression failed"]
    ELSE [l EXCEPT !.compressed_size = l.compressed_size - chunk_size,
                   !.inflate_state = stream_result.state,
                   !.written = l.written \o stream_result.written]

\* A turn of the DEFLATE loop from the read of the chunk on.
InflateChunk(l, chunk_size, read) ==
    IF ~read.ok THEN [l EXCEPT !.status = "err", !.err = read.err]
    ELSE InflateStep(l, chunk_size,
                     Inflate(l.inflate_state, read.bytes, l.size - Len(l.written),
                             l.compressed_size <= BUFFER_SIZE))

\* One turn of the while loop of the DEFLATE arm.  l holds the loop's
\* variables: compressed_size is what remains to be read, written the front of
\* output filled so far (output_pos bytes of it).
InflateTurn(f, l) ==
    LET chunk_size == IF BUFFER_SIZE < l.compressed_size THEN BUFFER_SIZE
                      ELSE l.compressed_size
    IN  InflateChunk(l, chunk_size,
                     get_data(f, chunk_size, ChunkPos(l.data_offset, Len(l.written))))

RECURSIVE InflateLoop(_, _)
\* while compressed_size > 0
InflateLoop(f, l) ==
    IF l.status = "err" \/ l.compressed_size = 0 THEN l
    ELSE InflateLoop(f, InflateTurn(f, l))

Extracted(status, err, data) == [status |-> status, err |-> err, data |-> data]

\* The stored arm: the output buffer is what get_data filled.
ExtractStored(read) ==
    IF read.ok THEN Extracted("ok", "", read.bytes) ELSE Extracted("err", read.err, <<>>)

\* The DEFLATE arm after its loop: the output buffer is what the loop wrote,
\* followed by the zeroes it was allocated with.
ExtractInflated(size, l) ==
    IF l.status = "ok"
    THEN Extracted("ok", "", l.written \o Rep(size - Len(l.written), 0))
    ELSE Extracted("err", l.err, <<>>)

\* The variables of the DEFLATE loop as it is entered.
InflateStart(file_entry, data_offset) ==
    [data_offset |-> data_offset,
     size |-> file_entry.size,
     compressed_size |-> file_entry.compressed_size,
     inflate_state |-> NewInflateState,
     written |-> <<>>,
     status |-> "ok", err |-> ""]

\* The output buffer of size bytes and the match on the entry's method.
ExtractAt(f, file_entry, data_offset) ==
    IF file_entry.method = 0
    THEN ExtractStored(get_data(f, file_entry.size, data_offset))
    ELSE IF file_entry.method = 8
    THEN ExtractInflated(file_entry.size,
                         InflateLoop(f, InflateStart(file_entry, data_offset)))
    ELSE Extracted("err", "Unsupported compression method", <<>>)

\* let data_offset = ...: where the payload of the entry starts.
DataOffset(file_entry, file_header) ==
    file_entry.start_pos + SizeOfFileHeader + file_header.file_path_length
        + file_header.extra_field_length

\* get_file after open_file has returned Ok, from the payload offset on.
Extract(f, file_entry, file_header) ==
    ExtractAt(f, file_entry, DataOffset(file_entry, file_header))

\* What get_file returns, and the two snapshots as it leaves them: close_file
\* runs only before Ok.
GetFileOutcome(opened, out) ==
    [status |-> out.status, err |-> out.err, data |-> out.data,
     cfe |-> IF out.status = "ok" THEN None ELSE opened.cfe,
     cfh |-> IF out.status = "ok" THEN None ELSE opened.cfh]

GetFileOpened(f, opened) ==
    IF ~opened.ok
    THEN [status |-> "err", err |-> opened.err, data |-> <<>>,
          cfe |-> opened.cfe, cfh |-> opened.cfh]
    ELSE GetFileOutcome(opened, Extract(f, opened.cfe[1], opened.cfh[1]))

\* get_file: gives the status ("ok" or "err"), the error, the bytes returned
\* and the two snapshots as it leaves them.
get_file(f, index, cfe, cfh, file_path) ==
    GetFileOpened(f, open_file(f, index, cfe, cfh, file_path))

(***************************************************************************)
(* The calls: Unzipper::new, Unzipper::open, Unzipper::get_file            *)
(***************************************************************************)
NoResult ==
    [op |-> "none", status |-> "none", err |-> "", data |-> <<>>,
     farg |-> "", parg |-> <<>>]

OpenResult(v, f, status, err) ==
    [op |-> v, status |-> status, err |-> err, data |-> <<>>,
     farg |-> f, parg |-> <<>>]

\* The paths the caller asks get_file for: the member names of the files, a
\* name no file has ("zz"), and "./a", "/a".
GetPaths ==
    {<<97>>, <<100, 47, 98>>, <<103>>, <<120, 47, 121>>, <<120, 47, 46, 47, 121>>,
     <<109>>, <<112>>, <<113>>, <<118>>, <<115>>, <<117>>, <<107>>, <<99>>, <<101>>,
     <<122, 122>>, <<46, 47, 97>>, <<47, 97>>}

\* The outcomes of a read past the end of a buffer.
UBOutcomes == {"panic", "garbage"}

\* open (called by v: "new" or "open") returns out, with self.file being
\* fileNow: a panic ends the process; an Err from new drops the Unzipper that
\* new was building; any other return leaves the caller with the handle.
Return(v, f, fileNow, out) ==
    /\ result' = OpenResult(v, f, out.status, out.err)
    /\ via' = "none"
    /\ IF out.status = "panic"
       THEN /\ pc' = "crashed"
            /\ file' = fileNow
            /\ file_entries' = out.index
            /\ UNCHANGED <<handle, filepath, current_file_entry,
                           current_file_header, failed_get>>
       ELSE IF out.status = "err" /\ v = "new"
       THEN /\ pc' = "idle"
            /\ handle' = "none"
            /\ filepath' = None
            /\ file' = None
            /\ file_entries' = <<>>
            /\ current_file_entry' = None
            /\ current_file_header' = None
            /\ failed_get' = FALSE
       ELSE /\ pc' = "idle"
            /\ handle' = "live"
            /\ file' = fileNow
            /\ file_entries' = out.index
            /\ filepath' = IF v = "new" THEN Some(f) ELSE filepath
            /\ UNCHANGED <<current_file_entry, current_file_header, failed_get>>

\* open after its first read: buf is buff with the last FILE_CENTRAL_SIZE
\* bytes of the file at its front.  Either the record is there, or the
\* backward loop starts.
OpenProbed(v, f, ecd, buf) ==
    IF get_u32(Slice(buf, 0, 4)) # DIR_END_SIGNATURE
    THEN /\ end_offset' = IF ecd > ScanLimit THEN ecd - ScanLimit ELSE 0
         /\ ecd_offset' = IF ecd >= FILE_CENTRAL_SIZE THEN ecd - FILE_CENTRAL_SIZE ELSE 0
         /\ found' = FALSE
         /\ buff' = buf
         /\ pc' = "scan"
         /\ via' = v
         /\ file' = Some(f)
         /\ UNCHANGED <<handle, filepath, file_entries, current_file_entry,
                        current_file_header, failed_get, result>>
    ELSE /\ ecd_offset' = ecd
         /\ buff' = buf
         /\ UNCHANGED <<end_offset, found>>
         /\ \E ub \in UBOutcomes :
               Return(v, f, Some(f), OpenTail(Some(f), ecd, buf, file_entries, ub))

\* open up to its backward loop, on the fields self has at the call.
OpenStart(v, f) ==
    /\ opens' = opens + 1
    /\ UNCHANGED <<fs, pathVars>>
    /\ IF ~FileExists(f)
       THEN /\ Return(v, f, file,
                      OpenOutcome("err", "No such file or directory", file_entries))
            /\ UNCHANGED <<ecd_offset, end_offset, found, buff>>
       ELSE IF FileLength(f) < FILE_CENTRAL_SIZE
       THEN /\ Return(v, f, Some(f),
                      OpenOutcome("err", "File is too small to be a zip file",
                                  file_entries))
            /\ UNCHANGED <<ecd_offset, end_offset, found, buff>>
       ELSE OpenProbed(v, f, FileLength(f) - FILE_CENTRAL_SIZE,
                       get_data(Some(f), FILE_CENTRAL_SIZE,
                                FileLength(f) - FILE_CENTRAL_SIZE).bytes \o Rep(5, 0))

\* Unzipper::new(filepath): a fresh Unzipper, then open.
NewCall(f) ==
    /\ handle = "none"
    /\ pc = "idle"
    /\ opens < MaxOpens
    /\ f \in fs
    /\ OpenStart("new", f)

\* unzipper.open(path) on the Unzipper the caller holds.
OpenCall(f) ==
    /\ handle = "live"
    /\ pc = "idle"
    /\ opens < MaxOpens
    /\ f \in fs
    /\ OpenStart("open", f)

\* The first position of b"PK\x05\x06" among the 4-byte windows of buf, or -1.
WindowPosition(buf) ==
    LET hits == {p \in 0..(Len(buf) - 4) : Slice(buf, p, p + 4) = <<80, 75, 5, 6>>}
    IN  IF hits = {} THEN -1 ELSE CHOOSE p \in hits : \A q \in hits : p <= q

\* open's backward loop goes on.
ScanOn ==
    UNCHANGED <<handle, filepath, file, file_entries, current_file_entry,
                current_file_header, failed_get, result, pc, via>>

\* open returns from inside its backward loop.
ScanStop(status, err) ==
    Return(via, file[1], file, OpenOutcome(status, err, file_entries))

\* A turn of the loop that found the signature at window p: again is the
\* read of the record there.
ScanWindow(read, p, again) ==
    /\ ecd_offset' = ecd_offset + p
    /\ IF again.ok
       THEN /\ buff' = again.bytes \o Slice(read.bytes, FILE_CENTRAL_SIZE,
                                            FILE_CENTRAL_SIZE + 5)
            /\ found' = TRUE
            /\ ScanOn
       ELSE /\ buff' = read.bytes
            /\ UNCHANGED found
            /\ ScanStop("err", again.err)

\* A turn of the loop from its read on.  ecd_offset -= FILE_CENTRAL_SIZE
\* underflows below 22: a panic with overflow checks; without them ecd_offset
\* wraps to nearly usize::MAX, the loop goes on and its seek fails, which open
\* returns.
ScanTurn(read, p) ==
    IF ~read.ok
    THEN ScanStop("err", read.err) /\ UNCHANGED <<ecd_offset, found, buff>>
    ELSE IF get_u32(Slice(read.bytes, 0, 4)) = DIR_END_SIGNATURE
    THEN found' = TRUE /\ buff' = read.bytes /\ UNCHANGED ecd_offset /\ ScanOn
    ELSE IF p >= 0
    THEN ScanWindow(read, p, get_data(file, FILE_CENTRAL_SIZE, ecd_offset + p))
    ELSE IF ecd_offset < FILE_CENTRAL_SIZE
    THEN /\ buff' = read.bytes
         /\ UNCHANGED <<ecd_offset, found>>
         /\ \/ ScanStop("panic", "attempt to subtract with overflow")
            \/ ScanStop("err", "Invalid argument")
    ELSE /\ ecd_offset' = ecd_offset - FILE_CENTRAL_SIZE
         /\ buff' = read.bytes
         /\ UNCHANGED found
         /\ ScanOn

ScanRead(read) == ScanTurn(read, IF read.ok THEN WindowPosition(read.bytes) ELSE -1)

\* One turn of open's backward loop.
ScanIter ==
    /\ pc = "scan"
    /\ ~found
    /\ ecd_offset > end_offset
    /\ UNCHANGED <<fs, opens, pathVars, end_offset>>
    /\ ScanRead(get_data(file, FILE_CENTRAL_SIZE + 5, ecd_offset))

\* open from the end of its backward loop on.
ScanExit ==
    /\ pc = "scan"
    /\ found \/ ecd_offset <= end_offset
    /\ UNCHANGED <<fs, opens, pathVars, end_offset, found, buff>>
    /\ ecd_offset' = IF found THEN ecd_offset ELSE 0
    /\ \E ub \in UBOutcomes :
          Return(via, file[1], file,
                 OpenTail(file, IF found THEN ecd_offset ELSE 0, buff, file_entries, ub))

GetFileReturn(file_path, out) ==
    /\ current_file_entry' = out.cfe
    /\ current_file_header' = out.cfh
    /\ failed_get' = (failed_get \/ out.status = "err")
    /\ result' = [op |-> "get_file", status |-> out.status, err |-> out.err,
                  data |-> out.data, farg |-> "", parg |-> file_path]

\* unzipper.get_file(file_path)
GetFile(file_path) ==
    /\ handle = "live"
    /\ pc = "idle"
    /\ file_path \in GetPaths
    /\ GetFileReturn(file_path,
                     get_file(file, file_entries, current_file_entry,
                              current_file_header, file_path))
    /\ UNCHANGED <<fs, handle, filepath, file, file_entries, pc, via, ecd_offset,
                   end_offset, found, buff, opens, pathVars>>

MainFiles ==
    {"ok.zip", "note.zip", "big.zip", "dup.zip", "mismatch.zip", "badsig2.zip",
     "overrun.zip", "longname.zip", "mixed.zip", "tiny.bin", "raw50.bin", MissingFile}

LocatorFiles ==
    {"ok.zip", "empty.zip", "c1.zip", "c21.zip", "c22.zip", "c23.zip", "c65516.zip",
     "c65517.zip", "c65535.zip", "tiny.bin", "raw22.bin", "raw44.bin", "raw50.bin",
     "raw66.bin", "raw65700.bin", "gap.zip", "farstart.zip"}

HandleInit(files) ==
    /\ fs = files
    /\ handle = "none"
    /\ filepath = None
    /\ file = None
    /\ file_entries = <<>>
    /\ current_file_entry = None
    /\ current_file_header = None
    /\ pc = "idle"
    /\ via = "none"
    /\ ecd_offset = 0
    /\ end_offset = 0
    /\ found = FALSE
    /\ buff = <<>>
    /\ opens = 0
    /\ failed_get = FALSE
    /\ result = NoResult

PathIdle == path_in = <<>> /\ path_out = None /\ path_twice = None

Init == HandleInit(MainFiles) /\ PathIdle

Next ==
    \/ \E f \in fs : NewCall(f)
    \/ \E f \in fs : OpenCall(f)
    \/ ScanIter
    \/ ScanExit
    \/ \E file_path \in GetPaths : GetFile(file_path)

Spec == Init /\ [][Next]_vars

\* The directory locator alone: one Unzipper::new on each file of LocatorFiles.
InitLocate == HandleInit(LocatorFiles) /\ PathIdle

NextLocate ==
    \/ \E f \in fs : opens = 0 /\ NewCall(f)
    \/ ScanIter
    \/ ScanExit

SpecLocate == InitLocate /\ [][NextLocate]_vars

(***************************************************************************)
(* Properties of open and get_file                                         *)
(***************************************************************************)
\* The archives whose every record is as the format wants it.
WellFormedFiles == {"ok.zip", "note.zip", "big.zip"}

\* The archives whose directory says more than the captured bytes hold: a
\* count of 2 over one record, a name length of 9 over a name of 1 byte.
OverrunFiles == {"overrun.zip", "longname.zip"}

\* The last call to have returned is Unzipper::new or Unzipper::open.
OpenReturned == pc # "scan" /\ result.op \in {"new", "open"}

\* The last call to have returned is get_file.
GetReturned == pc = "idle" /\ result.op = "get_file"

\* What the directory of an archive says of its member j.
RecordEntry(es, j) ==
    [start_pos       |-> DeclaredOffset(es, j),
     compressed_size |-> es[j].csize,
     size            |-> es[j].size,
     method          |-> es[j].method]

\* No record after j has a name that normalizes as the name of record j.
IsLastOfPath(es, j) ==
    \A k \in (j + 1)..Len(es) :
        clean_file_path(es[k].name) # clean_file_path(es[j].name)

\* get_file on the fields of self, with no snapshot left by an earlier call.
FreshGet(file_path) == get_file(file, file_entries, None, None, file_path)

\* The call that returned r returned what out holds.
SameOutcome(r, out) ==
    r.status = out.status /\ r.err = out.err /\ r.data = out.data

\* C1: get_file on a member of a well-formed archive (stored or deflated, of
\* any compressed size) returns the member's plaintext, and as many bytes as
\* the index gives for its size.
C1_RoundTrip ==
    (GetReturned /\ opens = 1 /\ file # None /\ file[1] \in WellFormedFiles) =>
        \A i \in 1..Len(Files[file[1]].es) :
            clean_file_path(Files[file[1]].es[i].name) = clean_file_path(result.parg) =>
                /\ result.status = "ok"
                /\ result.data = Files[file[1]].es[i].plain
                /\ Len(result.data) = file_entries[clean_file_path(result.parg)].size

\* C2: open of a valid archive with a comment of c >= 1 bytes succeeds, with
\* the end-of-central-directory record located at L - 22 - c.
C2_CommentFound ==
    (OpenReturned /\ result.farg \in DOMAIN Files
        /\ Len(Files[result.farg].comment) >= 1) =>
        /\ result.status = "ok"
        /\ ecd_offset = FileLength(result.farg) - FILE_CENTRAL_SIZE
                            - Len(Files[result.farg].comment)

\* C3: open of a file of at least 22 bytes that holds the signature of the
\* end-of-central-directory record nowhere returns the error "Unable to find
\* end of central directory": no panic, no other error.
C3_NoSignatureError ==
    (OpenReturned /\ result.farg \in DOMAIN RawFiles
        /\ FileLength(result.farg) >= FILE_CENTRAL_SIZE) =>
        /\ result.status = "err"
        /\ result.err = "Unable to find end of central directory"

\* C4: open of a valid archive without a comment, whatever its number of
\* entries, accepts the record at L - 22 and builds the index.
C4_DirectRead ==
    (OpenReturned /\ result.farg \in DOMAIN Files
        /\ Files[result.farg].comment = <<>>) =>
        /\ result.status = "ok"
        /\ ecd_offset = FileLength(result.farg) - FILE_CENTRAL_SIZE

\* C5: get_file on a stored entry whose index metadata has compressed_size
\* different from size returns an error and no data.
C5_StoredSizeChecked ==
    (GetReturned /\ clean_file_path(result.parg) \in DOMAIN file_entries
        /\ file_entries[clean_file_path(result.parg)].method = 0
        /\ file_entries[clean_file_path(result.parg)].compressed_size
              # file_entries[clean_file_path(result.parg)].size) =>
        /\ result.status = "err"
        /\ result.data = <<>>

\* C6: open of an archive whose declared entry count or name length reaches
\* past the captured directory bytes returns an error: it does not crash.
C6_WalkBoundsChecked ==
    (OpenReturned /\ result.farg \in OverrunFiles) => result.status = "err"

\* C7: a step in which Unzipper::new or Unzipper::open returns an error
\* leaves the caller no handle, or a handle whose index is the index it had
\* before the call: nothing the failed call inserted stays in it.
C7_OpenAllOrNothing ==
    [][(/\ opens' # opens \/ pc = "scan"
        /\ pc' = "idle"
        /\ result'.status = "err"
        /\ handle' = "live") => file_entries' = file_entries]_vars

\* C8: a get_file call, failing or not, leaves the handle, the open file and
\* the index as they were, and what a get_file call returns is what it would
\* return on a handle no earlier get_file has failed on.
C8_FailedGetHarmless ==
    /\ [](GetReturned => SameOutcome(result, FreshGet(result.parg)))
    /\ [][(pc = "idle" /\ opens' = opens /\ result'.op = "get_file") =>
             /\ handle' = "live"
             /\ file # None
             /\ file' = file
             /\ file_entries' = file_entries]_vars

\* A get_file has returned the bytes of "v" on a handle an earlier get_file
\* failed on.
C8_Witness ==
    /\ GetReturned
    /\ failed_get
    /\ file = Some("mixed.zip")
    /\ current_file_header = None
    /\ result.status = "ok"
    /\ result.data = <<86, 87>>

\* C10: after open, the index entry of a path is the metadata of the last
\* record whose name normalizes to that path, and the index of a new handle
\* has one entry for each such path and no other.
C10_LaterRecordWins ==
    (OpenReturned /\ result.status = "ok" /\ result.farg \in DOMAIN Files) =>
        /\ \A j \in 1..Len(Files[result.farg].es) :
              IsLastOfPath(Files[result.farg].es, j) =>
                  /\ clean_file_path(Files[result.farg].es[j].name) \in DOMAIN file_entries
                  /\ file_entries[clean_file_path(Files[result.farg].es[j].name)]
                        = RecordEntry(Files[result.farg].es, j)
        /\ result.op = "new" =>
              DOMAIN file_entries =
                  {clean_file_path(Files[result.farg].es[j].name) :
                      j \in 1..Len(Files[result.farg].es)}

\* The archive with records "x/y" and "x/./y" has been opened: the index has
\* the one path "x/y", with the metadata of the second record.
C10_Witness ==
    /\ OpenReturned
    /\ result.op = "new"
    /\ result.status = "ok"
    /\ result.farg = "dup.zip"
    /\ DOMAIN file_entries = {<<120, 47, 121>>}
    /\ file_entries[<<120, 47, 121>>].size = 2

\* The loop variables with which a get_file(file_path) on the fields of self
\* enters its DEFLATE loop (when open_file returns Ok on opened).
DeflateEntered(opened) ==
    InflateStart(opened.cfe[1], DataOffset(opened.cfe[1], opened.cfh[1]))

RECURSIVE ChunksContiguous(_, _, _)
\* From the loop variables l on, every turn of the DEFLATE loop reads its
\* chunk where the compressed bytes read so far end: total is the
\* compressed_size the loop started with.
ChunksContiguous(f, l, total) ==
    IF l.status = "err" \/ l.compressed_size = 0 THEN TRUE
    ELSE /\ ChunkPos(l.data_offset, Len(l.written))
               = l.data_offset + (total - l.compressed_size)
         /\ ChunksContiguous(f, InflateTurn(f, l), total)

\* The get_file that returned went through the DEFLATE arm.
DeflateReturned(opened) ==
    /\ GetReturned
    /\ opened.ok
    /\ opened.cfe[1].method = 8

\* C11: in the DEFLATE loop of get_file the k-th chunk is read at the payload
\* offset plus the sizes of the chunks read before it.
C11_ChunksContiguous ==
    DeflateReturned(open_file(file, file_entries, None, None, result.parg)) =>
        ChunksContiguous(
            file,
            DeflateEntered(open_file(file, file_entries, None, None, result.parg)),
            DeflateEntered(open_file(file, file_entries, None, None, result.parg))
                .compressed_size)

\* open has returned after testing an end-of-central-directory record it
\* located: buff holds the record and ecd_offset its offset.
RecordLocated ==
    /\ OpenReturned
    /\ FileExists(result.farg)
    /\ FileLength(result.farg) >= FILE_CENTRAL_SIZE
    /\ ecd_offset # 0
    /\ get_u32(Slice(buff, 0, 4)) = DIR_END_SIGNATURE

\* C12: the bytes open reads as the central directory are as many as the
\* size field of the end record says (bytes 12 to 16 of it), read from its
\* start field on; and when the start field is past the record, open does not
\* crash.
C12_DirectoryReadAsDeclared ==
    RecordLocated =>
        /\ EntriesTotalSize(ecd_offset, get_u32(Slice(buff, 16, 20)))
              = get_u32(Slice(buff, 12, 16))
        /\ get_u32(Slice(buff, 16, 20)) > ecd_offset => result.status # "panic"

\* C13: when a get_file call has returned, with Ok or with an Err, no entry
\* snapshot and no header snapshot is held.
C13_SnapshotsDiscarded ==
    GetReturned => current_file_entry = None /\ current_file_header = None

\* The index that the directory of an archive of members es describes.
DirectoryIndex(es) ==
    [key \in {clean_file_path(es[j].name) : j \in 1..Len(es)} |->
        RecordEntry(es, CHOOSE j \in 1..Len(es) :
                            clean_file_path(es[j].name) = key /\ IsLastOfPath(es, j))]

\* C14: when the public open has returned Ok on a handle that held an index,
\* the index is the one the directory of the archive just opened describes:
\* no key of the archive opened before is left.
C14_IndexReplaced ==
    (OpenReturned /\ result.op = "open" /\ result.status = "ok"
        /\ result.farg \in DOMAIN Files) =>
        file_entries = DirectoryIndex(Files[result.farg].es)

(***************************************************************************)
(* The specification of clean_file_path alone: the argument is any string  *)
(* of at most MaxPathLen characters over PathAlphabet, or one of the two   *)
(* longer strings PathExamples.                                            *)
(***************************************************************************)
PathAlphabet == {Slash, Dot, 97, 98}

RECURSIVE StringsUpTo(_)
StringsUpTo(n) ==
    IF n = 0 THEN {<<>>}
    ELSE LET shorter == StringsUpTo(n - 1)
         IN  shorter \cup {Append(s, c) : s \in {t \in shorter : Len(t) = n - 1},
                                          c \in PathAlphabet}

\* "a/./b/../c" and "/x/../../y"
PathExampleRel == <<97, 47, 46, 47, 98, 47, 46, 46, 47, 99>>
PathExampleAbs == <<47, 120, 47, 46, 46, 47, 46, 46, 47, 121>>
PathExamples == {PathExampleRel, PathExampleAbs}

PathInputs == StringsUpTo(MaxPathLen) \cup PathExamples

InitPath ==
    /\ HandleInit({})
    /\ path_in \in PathInputs
    /\ path_out = None
    /\ path_twice = None

Clean ==
    /\ path_out = None
    /\ path_out' = Some(clean_file_path(path_in))
    /\ UNCHANGED <<path_in, path_twice>>
    /\ UNCHANGED handleVars

CleanAgain ==
    /\ path_out # None
    /\ path_twice = None
    /\ path_twice' = Some(clean_file_path(path_out[1]))
    /\ UNCHANGED <<path_in, path_out>>
    /\ UNCHANGED handleVars

NextPath == Clean \/ CleanAgain

SpecPath == InitPath /\ [][NextPath]_vars

\* The pieces of a cleaned path: those of the path after its leading '/',
\* none for the empty path.
Segments(p) ==
    LET body == IF starts_with(p, Slash) THEN Tail(p) ELSE p
    IN  IF body = <<>> THEN <<>> ELSE Split(body)

\* C9: clean_file_path is idempotent; its output has no empty, "." or ".."
\* segment; ".." at the root is dropped without an error; a leading '/' of the
\* input is kept; "a/./b/../c" gives "a/c" and "/x/../../y" gives "/y".
C9_CleanIdempotent ==
    /\ path_twice # None => path_twice[1] = path_out[1]
    /\ path_out # None =>
          /\ \A i \in 1..Len(Segments(path_out[1])) :
                Segments(path_out[1])[i] \notin {<<>>, <<Dot>>, <<Dot, Dot>>}
          /\ starts_with(path_in, Slash) => starts_with(path_out[1], Slash)
          /\ path_in = <<Dot, Dot>> => path_out[1] = <<>>
          /\ path_in = <<Slash, Dot, Dot>> => path_out[1] = <<Slash>>
          /\ path_in = PathExampleRel => path_out[1] = <<97, 47, 99>>
          /\ path_in = PathExampleAbs => path_out[1] = <<47, 121>>

\* A path with a "." and a ".." segment has been cleaned twice.
C9_Witness ==
    /\ path_twice # None
    /\ path_in = PathExampleAbs
    /\ path_out[1] = <<47, 121>>

====
